---- MODULE Spec2Model ----
(***************************************************************************)
(* Model of the Amharic Fidel BPE tokenizer (amharic_tokenizer/tokenizer.py)*)
(*                                                                         *)
(* A character is a TLA+ string naming one code point; a Python str is a   *)
(* sequence of characters; a token is a Python str; a word is a sequence   *)
(* of tokens.  Python dicts whose iteration order is observed (Counter)    *)
(* are sequences of [key, n] entries in insertion order; the other dicts   *)
(* are functions.                                                          *)
(***************************************************************************)
EXTENDS Integers, Sequences, FiniteSets, TLC

(***************************************************************************)
(* Characters.  Ethiopic code points are written in transliteration:       *)
(*   "LE" U+1208, "LU" U+1209, "L" U+120D, "LWA" U+120F, "ME" U+1218,      *)
(*   "M" U+121D, "U" U+12A1, "A" U+12A3, "E" U+12A7.                       *)
(* CodePoints lists every character of the model in code point order.      *)
(***************************************************************************)
CodePoints ==
  << " ", "0", "1", "2", "3", "4", "5", "6", "7", "8", "9",
     "<", ">", "e", "k", "n", "o", "u", "w",
     "LE", "LU", "L", "LWA", "ME", "M", "U", "A", "E" >>

ord(c) == CHOOSE i \in 1..Len(CodePoints) : CodePoints[i] = c

Digits == << "0", "1", "2", "3", "4", "5", "6", "7", "8", "9" >>

EOW == << "<", "e", "o", "w", ">" >>

UNK == << "<", "u", "n", "k", ">" >>

(***************************************************************************)
(* The script decomposition table (amharic_tokenizer/fidel_map.py): glyph  *)
(* -> string of base units, one to three units long, and its reverse.      *)
(***************************************************************************)
AMHARIC_FIDEL_MAP ==
  [ g \in {"LE", "LU", "L", "LWA", "ME", "M"} |->
      CASE g = "LE"  -> << "L", "E" >>
        [] g = "LU"  -> << "L", "U" >>
        [] g = "L"   -> << "L" >>
        [] g = "LWA" -> << "L", "U", "A" >>
        [] g = "ME"  -> << "M", "E" >>
        [] g = "M"   -> << "M" >> ]

REVERSE_FIDEL_MAP ==
  [ k \in { AMHARIC_FIDEL_MAP[g] : g \in DOMAIN AMHARIC_FIDEL_MAP } |->
      CHOOSE g \in DOMAIN AMHARIC_FIDEL_MAP : AMHARIC_FIDEL_MAP[g] = k ]

(***************************************************************************)
(* Python str and list primitives.                                         *)
(***************************************************************************)
Min(a, b) == IF a < b THEN a ELSE b

\* s[i:j] with 0-based Python bounds, clipped to the string
Slice(s, i, j) == SubSeq(s, i + 1, Min(j, Len(s)))

RECURSIVE join(_)
\* ''.join(tokens)
join(tokens) ==
  IF tokens = << >> THEN << >> ELSE Head(tokens) \o join(Tail(tokens))

\* needle in hay (substring test)
Contains(hay, needle) ==
  \E i \in 0..(Len(hay) - Len(needle)) : Slice(hay, i, i + Len(needle)) = needle

RECURSIVE replace(_, _, _)
\* s.replace(old, new): leftmost non-overlapping occurrences, old non-empty
replace(s, old, new) ==
  IF Len(s) < Len(old) THEN s
  ELSE IF Slice(s, 0, Len(old)) = old
       THEN new \o replace(Slice(s, Len(old), Len(s)), old, new)
       ELSE << Head(s) >> \o replace(Tail(s), old, new)

RECURSIVE SplitFrom(_, _)
\* s.split(): maximal runs of non-whitespace characters; cur is the run being read
SplitFrom(s, cur) ==
  IF s = << >> THEN (IF cur = << >> THEN << >> ELSE << cur >>)
  ELSE IF Head(s) = " "
       THEN (IF cur = << >> THEN << >> ELSE << cur >>) \o SplitFrom(Tail(s), << >>)
       ELSE SplitFrom(Tail(s), Append(cur, Head(s)))

split(s) == SplitFrom(s, << >>)

RECURSIVE joinWith(_, _)
\* sep.join(parts)
joinWith(sep, parts) ==
  IF parts = << >> THEN << >>
  ELSE IF Len(parts) = 1 THEN Head(parts)
       ELSE Head(parts) \o sep \o joinWith(sep, Tail(parts))

RECURSIVE StrLess(_, _)
\* a < b on Python str: lexicographic by code point
StrLess(a, b) ==
  IF b = << >> THEN FALSE
  ELSE IF a = << >> THEN TRUE
       ELSE IF Head(a) = Head(b) THEN StrLess(Tail(a), Tail(b))
            ELSE ord(Head(a)) < ord(Head(b))

RECURSIVE sorted(_)
\* sorted(list(set_of_str))
sorted(S) ==
  IF S = {} THEN << >>
  ELSE LET m == CHOOSE x \in S : \A y \in S \ {x} : StrLess(x, y)
       IN  << m >> \o sorted(S \ {m})

RECURSIVE str(_)
\* str(k) for an int k >= 0: its decimal digits
str(k) ==
  IF k < 10 THEN << Digits[k + 1] >>
  ELSE str(k \div 10) \o << Digits[(k % 10) + 1] >>

RECURSIVE int(_)
\* int(s) for a string of decimal digits
int(s) ==
  IF Len(s) = 1 THEN ord(s[1]) - ord("0")
  ELSE 10 * int(SubSeq(s, 1, Len(s) - 1)) + (ord(s[Len(s)]) - ord("0"))

\* d[k] = v on a dict
Put(d, k, v) == [ x \in DOMAIN d \cup {k} |-> IF x = k THEN v ELSE d[x] ]

EmptyDict == [ x \in {} |-> 0 ]

(***************************************************************************)
(* collections.Counter, in insertion order: a sequence of [key, n].        *)
(***************************************************************************)
CounterKeys(c) == { c[i].key : i \in 1..Len(c) }

\* c[k] (0 for a missing key)
CounterGet(c, k) ==
  IF k \in CounterKeys(c)
  THEN c[CHOOSE i \in 1..Len(c) : c[i].key = k].n
  ELSE 0

\* c[k] = c.get(k, 0) + d: an existing key keeps its place, a new one is appended
CounterAdd(c, k, d) ==
  IF k \in CounterKeys(c)
  THEN [ i \in 1..Len(c) |-> IF c[i].key = k THEN [ key |-> k, n |-> c[i].n + d ] ELSE c[i] ]
  ELSE Append(c, [ key |-> k, n |-> d ])

RECURSIVE update(_, _)
\* c.update(other)
update(c, other) ==
  IF other = << >> THEN c
  ELSE update(CounterAdd(c, Head(other).key, Head(other).n), Tail(other))

\* a subtract that leaves the counts as they are
subtract_nothing(c, other) == c

RECURSIVE subtract(_, _)
\* c.subtract(other)
subtract(c, other) ==
  IF other = << >> THEN c
  ELSE subtract(CounterAdd(c, Head(other).key, 0 - Head(other).n), Tail(other))

RECURSIVE get_pairs_from(_, _)
get_pairs_from(tokens, c) ==
  IF Len(tokens) < 2 THEN c
  ELSE get_pairs_from(Tail(tokens), CounterAdd(c, << tokens[1], tokens[2] >>, 1))

\* Counter(zip(tokens[:-1], tokens[1:]))
get_pairs(tokens) == get_pairs_from(tokens, << >>)

RECURSIVE MaxFrom(_, _, _)
MaxFrom(c, i, best) ==
  IF i > Len(c) THEN best
  ELSE MaxFrom(c, i + 1, IF c[i].n > c[best].n THEN i ELSE best)

\* a selection that takes the key inserted last, whatever its count
max_key_last_inserted(c) == c[Len(c)].key

\* max(pair_counts, key=pair_counts.get): the first key of the largest count
max_key(c) == c[MaxFrom(c, 2, 1)].key

(***************************************************************************)
(* AmharicTokenizer: construction.                                         *)
(***************************************************************************)
\* a registration without the membership test: a known token gets a fresh ID
add_to_vocab_maps_unchecked(T, token) ==
  [ T EXCEPT !.token_to_id = Put(T.token_to_id, token, T.next_id),
             !.id_to_token = Put(T.id_to_token, T.next_id, token),
             !.next_id = T.next_id + 1 ]

add_to_vocab_maps(T, token) ==
  IF token \notin DOMAIN T.token_to_id
  THEN [ T EXCEPT !.token_to_id = Put(T.token_to_id, token, T.next_id),
                  !.id_to_token = Put(T.id_to_token, T.next_id, token),
                  !.next_id = T.next_id + 1 ]
  ELSE T

initial_tokens ==
  UNION { { << AMHARIC_FIDEL_MAP[g][i] >> : i \in 1..Len(AMHARIC_FIDEL_MAP[g]) } :
            g \in DOMAIN AMHARIC_FIDEL_MAP } \cup { EOW }

RECURSIVE add_base_tokens(_, _)
add_base_tokens(T, tokens) ==
  IF tokens = << >> THEN T
  ELSE add_base_tokens(
         add_to_vocab_maps([ T EXCEPT !.vocabulary = Put(T.vocabulary, Head(tokens), 0) ],
                           Head(tokens)),
         Tail(tokens))

initialize_base_vocabulary(T) == add_base_tokens(T, sorted(initial_tokens))

\* AmharicTokenizer(num_merges)
new_tokenizer(num_merges) ==
  initialize_base_vocabulary(
    [ vocabulary     |-> EmptyDict,
      merge_rank_map |-> EmptyDict,
      num_merges     |-> num_merges,
      token_to_id    |-> EmptyDict,
      id_to_token    |-> EmptyDict,
      next_id        |-> 0 ])

(***************************************************************************)
(* Preprocessing.                                                          *)
(***************************************************************************)
RECURSIVE map_word(_)
map_word(word) ==
  IF word = << >> THEN << >>
  ELSE (IF Head(word) \in DOMAIN AMHARIC_FIDEL_MAP
        THEN [ i \in 1..Len(AMHARIC_FIDEL_MAP[Head(word)]) |->
                 << AMHARIC_FIDEL_MAP[Head(word)][i] >> ]
        ELSE << << Head(word) >> >>) \o map_word(Tail(word))

preprocess(amharic_corpus) ==
  LET words == split(amharic_corpus)
  IN  [ w \in 1..Len(words) |-> Append(map_word(words[w]), EOW) ]

(***************************************************************************)
(* Training.                                                               *)
(***************************************************************************)
RECURSIVE initial_pair_counts(_, _)
initial_pair_counts(tokenized_words, pair_counts) ==
  IF tokenized_words = << >> THEN pair_counts
  ELSE initial_pair_counts(Tail(tokenized_words),
                           update(pair_counts, get_pairs(Head(tokenized_words))))

RECURSIVE apply_merge(_, _, _)
\* the while loop over j: every non-overlapping left-to-right occurrence of best_pair
apply_merge(token_list, best_pair, new_token) ==
  IF token_list = << >> THEN << >>
  ELSE IF Len(token_list) > 1 /\ << token_list[1], token_list[2] >> = best_pair
       THEN << new_token >> \o apply_merge(Tail(Tail(token_list)), best_pair, new_token)
       ELSE << Head(token_list) >> \o apply_merge(Tail(token_list), best_pair, new_token)

\* does the loop over tokenized_words rewrite this word?
rescans(token_list, new_token) == Contains(join(token_list), new_token)

RECURSIVE rewrite_corpus(_, _, _, _)
\* the loop over tokenized_words: [words, counts] after the merge of best_pair
rewrite_corpus(tokenized_words, best_pair, new_token, acc) ==
  IF tokenized_words = << >> THEN acc
  ELSE LET token_list == Head(tokenized_words)
           new_list   == apply_merge(token_list, best_pair, new_token)
       IN  rewrite_corpus(
             Tail(tokenized_words), best_pair, new_token,
             IF rescans(token_list, new_token)
             THEN [ words  |-> Append(acc.words, new_list),
                    counts |-> update(subtract(acc.counts, get_pairs(token_list)),
                                      get_pairs(new_list)) ]
             ELSE [ acc EXCEPT !.words = Append(acc.words, token_list) ])

\* the rank written by one merge iteration
next_rank(T) == Cardinality(DOMAIN T.merge_rank_map) + 1

\* an iteration that forgets to register the new token in the ID maps
learn_merge_without_id(T, new_token, freq) ==
  [ T EXCEPT !.merge_rank_map = Put(T.merge_rank_map, new_token, next_rank(T)),
             !.vocabulary     = Put(T.vocabulary, new_token, freq) ]

\* lines 90-95 of one iteration: the maps after learning best_pair
learn_merge(T, new_token, freq) ==
  add_to_vocab_maps(
    [ T EXCEPT !.merge_rank_map = Put(T.merge_rank_map, new_token, next_rank(T)),
               !.vocabulary     = Put(T.vocabulary, new_token, freq) ],
    new_token)

\* a loop without the frequency threshold
stops_without_threshold(T, pair_counts, i) ==
  \/ i >= T.num_merges
  \/ pair_counts = << >>
  \/ CounterGet(pair_counts, max_key(pair_counts)) < 1

\* does iteration i of the for loop stop the loop?
stops(T, pair_counts, i) ==
  \/ i >= T.num_merges
  \/ pair_counts = << >>
  \/ CounterGet(pair_counts, max_key(pair_counts)) < 2

RECURSIVE train_loop(_, _, _, _, _)
\* for i in range(num_merges): ...; log keeps one entry per merge iteration
train_loop(T, tokenized_words, pair_counts, i, log) ==
  IF stops(T, pair_counts, i)
  THEN [ T |-> T, tokenized_words |-> tokenized_words, pair_counts |-> pair_counts,
         log |-> log ]
  ELSE LET best_pair == max_key(pair_counts)
           freq      == CounterGet(pair_counts, best_pair)
           new_token == best_pair[1] \o best_pair[2]
           T2        == learn_merge(T, new_token, freq)
           rw        == rewrite_corpus(tokenized_words, best_pair, new_token,
                                       [ words |-> << >>, counts |-> pair_counts ])
       IN  train_loop(T2, rw.words, rw.counts, i + 1,
                      Append(log, [ best_pair   |-> best_pair,
                                    freq        |-> freq,
                                    new_token   |-> new_token,
                                    existed     |-> new_token \in DOMAIN T.token_to_id,
                                    rank        |-> T2.merge_rank_map[new_token],
                                    counts_seen |-> pair_counts,
                                    words       |-> rw.words,
                                    pair_counts |-> rw.counts ]))

\* train(amharic_corpus): the tokenizer after the call, the locals at the end, the log
train(T, amharic_corpus) ==
  LET tokenized_words == preprocess(amharic_corpus)
  IN  train_loop(T, tokenized_words, initial_pair_counts(tokenized_words, << >>), 0, << >>)

\* the value train returns
train_result(T) == Cardinality(DOMAIN T.merge_rank_map)

(***************************************************************************)
(* tokenize.                                                               *)
(***************************************************************************)
\* None, and the pair of no pair
None == << >>

RECURSIVE adjacent_pairs(_)
\* the pairs get_best_merge visits in one word, in visiting order
adjacent_pairs(token_list) ==
  IF Len(token_list) < 2 THEN << >>
  ELSE << << token_list[1], token_list[2] >> >> \o adjacent_pairs(Tail(token_list))

RECURSIVE scan_order(_)
\* the pairs get_best_merge visits in the corpus, in visiting order
scan_order(current_corpus) ==
  IF current_corpus = << >> THEN << >>
  ELSE adjacent_pairs(Head(current_corpus)) \o scan_order(Tail(current_corpus))

\* a comparison that keeps the pair of the highest rank number
outranks_reversed(T, pair, best_pair) ==
  \/ best_pair = None
  \/ T.merge_rank_map[pair[1] \o pair[2]] > T.merge_rank_map[best_pair[1] \o best_pair[2]]

\* rank < highest_priority_rank, where no best pair yet means float('inf')
outranks(T, pair, best_pair) ==
  \/ best_pair = None
  \/ T.merge_rank_map[pair[1] \o pair[2]] < T.merge_rank_map[best_pair[1] \o best_pair[2]]

RECURSIVE best_of(_, _, _)
best_of(T, pairs, best_pair) ==
  IF pairs = << >> THEN best_pair
  ELSE best_of(T, Tail(pairs),
               IF /\ (Head(pairs)[1] \o Head(pairs)[2]) \in DOMAIN T.merge_rank_map
                  /\ outranks(T, Head(pairs), best_pair)
               THEN Head(pairs)
               ELSE best_pair)

get_best_merge(T, current_corpus) == best_of(T, scan_order(current_corpus), None)

RECURSIVE apply_best_merge_drops_right(_, _, _)
\* a merge loop that appends the left token of the pair instead of pair_str
apply_best_merge_drops_right(token_list, best_pair, pair_str) ==
  IF token_list = << >> THEN << >>
  ELSE IF Len(token_list) > 1 /\ << token_list[1], token_list[2] >> = best_pair
       THEN << best_pair[1] >>
              \o apply_best_merge_drops_right(Tail(Tail(token_list)), best_pair, pair_str)
       ELSE << Head(token_list) >>
              \o apply_best_merge_drops_right(Tail(token_list), best_pair, pair_str)

RECURSIVE apply_best_merge(_, _, _)
\* the while loop over i of tokenize
apply_best_merge(token_list, best_pair, pair_str) ==
  IF token_list = << >> THEN << >>
  ELSE IF Len(token_list) > 1 /\ << token_list[1], token_list[2] >> = best_pair
       THEN << pair_str >> \o apply_best_merge(Tail(Tail(token_list)), best_pair, pair_str)
       ELSE << Head(token_list) >> \o apply_best_merge(Tail(token_list), best_pair, pair_str)

\* one pass of the while True loop
tokenize_pass(corpus, best_pair) ==
  [ w \in 1..Len(corpus) |->
      apply_best_merge(corpus[w], best_pair, best_pair[1] \o best_pair[2]) ]

RECURSIVE tokenize_loop(_, _, _)
\* while True: ...; passes keeps [before, best_pair, after] of every pass
tokenize_loop(T, corpus, passes) ==
  LET best_pair == get_best_merge(T, corpus)
  IN  IF best_pair = None
      THEN [ corpus |-> corpus, passes |-> passes ]
      ELSE LET updated_corpus == tokenize_pass(corpus, best_pair)
           IN  tokenize_loop(T, updated_corpus,
                             Append(passes, [ before    |-> corpus,
                                              best_pair |-> best_pair,
                                              after     |-> updated_corpus ]))

\* [token for word_tokens in corpus for token in word_tokens]
flatten(corpus) == join(corpus)

tokenize_run(T, text) == tokenize_loop(T, preprocess(text), << >>)

tokenize(T, text) == flatten(tokenize_run(T, text).corpus)

(***************************************************************************)
(* detokenize, encode, decode.                                             *)
(***************************************************************************)
MAX_CV_LENGTH == 3

\* a scan that tries the shortest length first
match_length_shortest_first(chars_list, i, length) ==
  IF \E n \in 1..length : Slice(chars_list, i, i + n) \in DOMAIN REVERSE_FIDEL_MAP
  THEN CHOOSE n \in 1..length :
         /\ Slice(chars_list, i, i + n) \in DOMAIN REVERSE_FIDEL_MAP
         /\ \A m \in 1..(n - 1) : Slice(chars_list, i, i + m) \notin DOMAIN REVERSE_FIDEL_MAP
  ELSE 0

\* the for loop over length: the longest length in MAX_CV_LENGTH..1 that matches, or 0
RECURSIVE match_length(_, _, _)
match_length(chars_list, i, length) ==
  IF length = 0 THEN 0
  ELSE IF Slice(chars_list, i, i + length) \in DOMAIN REVERSE_FIDEL_MAP
       THEN length
       ELSE match_length(chars_list, i, length - 1)

RECURSIVE reconstruct(_, _)
\* the while loop over i of one word
reconstruct(chars_list, i) ==
  IF i >= Len(chars_list) THEN << >>
  ELSE LET length == match_length(chars_list, i, MAX_CV_LENGTH)
       IN  IF length > 0
           THEN << REVERSE_FIDEL_MAP[Slice(chars_list, i, i + length)] >>
                  \o reconstruct(chars_list, i + length)
           ELSE << chars_list[i + 1] >> \o reconstruct(chars_list, i + 1)

detokenize(tokens) ==
  LET temp_string   == replace(join(tokens), EOW, << " " >>)
      word_segments == split(temp_string)
  IN  joinWith(<< " " >>,
               [ w \in 1..Len(word_segments) |-> reconstruct(word_segments[w], 0) ])

\* the sentinel ID of a token the registry does not hold
UNKNOWN_ID == -1

encode_tokens(T, tokens) ==
  [ i \in 1..Len(tokens) |->
      IF tokens[i] \in DOMAIN T.token_to_id THEN T.token_to_id[tokens[i]] ELSE UNKNOWN_ID ]

encode(T, text) == encode_tokens(T, tokenize(T, text))

\* a reverse lookup that reads the ID one too high
decode_ids_off_by_one(T, token_ids) ==
  [ i \in 1..Len(token_ids) |->
      IF token_ids[i] + 1 \in DOMAIN T.id_to_token
      THEN T.id_to_token[token_ids[i] + 1] ELSE UNK ]

decode_ids(T, token_ids) ==
  [ i \in 1..Len(token_ids) |->
      IF token_ids[i] \in DOMAIN T.id_to_token THEN T.id_to_token[token_ids[i]] ELSE UNK ]

decode(T, token_ids) == detokenize(decode_ids(T, token_ids))

(***************************************************************************)
(* save, load_tokenizer.  A JSON document is a record; a JSON object is a  *)
(* function on strings.                                                    *)
(***************************************************************************)
\* {str(k): v for k, v in id_to_token.items()}
str_keys(d) == [ s \in { str(k) : k \in DOMAIN d } |->
                   d[CHOOSE k \in DOMAIN d : str(k) = s] ]

\* {int(k): v for k, v in state['id_to_token'].items()}
int_keys(d) == [ k \in { int(s) : s \in DOMAIN d } |->
                   d[CHOOSE s \in DOMAIN d : int(s) = k] ]

\* the state written by save
save(T) ==
  [ num_merges     |-> T.num_merges,
    vocabulary     |-> T.vocabulary,
    merge_rank_map |-> T.merge_rank_map,
    token_to_id    |-> T.token_to_id,
    id_to_token    |-> str_keys(T.id_to_token),
    next_id        |-> T.next_id ]

DEFAULT_NUM_MERGES == 50000

\* the fields load_tokenizer reads with state[...]: a missing one raises KeyError
required_fields == { "vocabulary", "merge_rank_map", "token_to_id", "id_to_token", "next_id" }

load_raises(state) == ~(required_fields \subseteq DOMAIN state)

\* a load that leaves next_id as the constructor set it
load_tokenizer_without_next_id(state) ==
  [ new_tokenizer(IF "num_merges" \in DOMAIN state
                  THEN state.num_merges ELSE DEFAULT_NUM_MERGES)
      EXCEPT !.vocabulary     = state.vocabulary,
             !.merge_rank_map = state.merge_rank_map,
             !.token_to_id    = state.token_to_id,
             !.id_to_token    = int_keys(state.id_to_token) ]

\* the instance load_tokenizer returns when it does not raise
load_tokenizer(state) ==
  [ new_tokenizer(IF "num_merges" \in DOMAIN state
                  THEN state.num_merges ELSE DEFAULT_NUM_MERGES)
      EXCEPT !.vocabulary     = state.vocabulary,
             !.merge_rank_map = state.merge_rank_map,
             !.token_to_id    = state.token_to_id,
             !.id_to_token    = int_keys(state.id_to_token),
             !.next_id        = state.next_id ]

(***************************************************************************)
(* Bounds and inputs.                                                      *)
(***************************************************************************)
MaxCorpusLen == 3

MaxTextLen == 3

MaxTrains == 2

MaxMerges == 10

CorpusChars == { "LE", "LWA", " " }

TextChars == { "LE", "2", " " }

RECURSIVE StringsUpTo(_, _)
StringsUpTo(alphabet, n) ==
  IF n = 0 THEN { << >> }
  ELSE LET shorter == StringsUpTo(alphabet, n - 1)
       IN  shorter \cup { Append(s, c) : s \in shorter, c \in alphabet }

\* longer inputs added to the enumerated ones
ExtraCorpora ==
  { << "2", "2", "2" >>, << "LE", "LE", " ", "LE", "LE" >>,
    << "2", "2", "2", " ", "2", "2", "2", " ", "2", "2" >> }

ExtraTexts ==
  { << "LWA" >>, << "L", "LE" >>, << "LE", "L" >>, << "LWA", "LU", "L" >>,
    << "ME", " ", "M", "LWA" >>, << "LU", "LE", " ", " ", "L" >>,
    << "LU", "LE", " ", "L", "LWA" >>,
    << "LE", "LE", " ", "LE", "LE" >> }

Corpora == StringsUpTo(CorpusChars, MaxCorpusLen) \cup ExtraCorpora

Texts == StringsUpTo(TextChars, MaxTextLen) \cup ExtraTexts

MergeBudgets == { 0, 1, MaxMerges }

(***************************************************************************)
(* The program: one tokenizer instance, the file save writes, and the      *)
(* arguments and results of the last call.                                 *)
(***************************************************************************)
VARIABLES tokenizer, trains, op, corpus, log, text, passes, tokens, ids, out, file, saved,
          callers

vars ==
  << tokenizer, trains, op, corpus, log, text, passes, tokens, ids, out, file, saved,
     callers >>

inference_vars == << text, passes, tokens, ids, out >>

training_vars == << tokenizer, trains, corpus, log >>

storage_vars == << file, saved >>

\* the threads that share the instance
Callers == { 1, 2 }

\* a thread that is in no call
Idle == [ call |-> "idle", pc |-> "idle", arg |-> << >>, work |-> << >>, result |-> << >> ]

Init ==
  /\ tokenizer \in { new_tokenizer(n) : n \in MergeBudgets }
  /\ trains = 0
  /\ op = "new"
  /\ corpus = << >>
  /\ log = << >>
  /\ text = << >>
  /\ passes = << >>
  /\ tokens = << >>
  /\ ids = << >>
  /\ out = << >>
  /\ file = << >>
  /\ saved = << >>
  /\ callers = [ c \in Callers |-> Idle ]

Train(amharic_corpus) ==
  /\ trains < MaxTrains
  /\ LET r == train(tokenizer, amharic_corpus)
     IN  /\ tokenizer' = r.T
         /\ log' = r.log
  /\ corpus' = amharic_corpus
  /\ trains' = trains + 1
  /\ op' = "train"
  /\ UNCHANGED << inference_vars, storage_vars >>
  /\ UNCHANGED callers

Tokenize(t) ==
  /\ LET r == tokenize_run(tokenizer, t)
     IN  /\ passes' = r.passes
         /\ tokens' = flatten(r.corpus)
  /\ text' = t
  /\ ids' = << >>
  /\ out' = << >>
  /\ op' = "tokenize"
  /\ UNCHANGED << training_vars, storage_vars >>
  /\ UNCHANGED callers

\* detokenize applied to the tokens the last tokenize call returned
Detokenize ==
  /\ op = "tokenize"
  /\ out' = detokenize(tokens)
  /\ op' = "detokenize"
  /\ UNCHANGED << training_vars, storage_vars, text, passes, tokens, ids >>
  /\ UNCHANGED callers

Encode(t) ==
  /\ LET r == tokenize_run(tokenizer, t)
     IN  /\ passes' = r.passes
         /\ tokens' = flatten(r.corpus)
         /\ ids' = encode_tokens(tokenizer, flatten(r.corpus))
  /\ text' = t
  /\ out' = << >>
  /\ op' = "encode"
  /\ UNCHANGED << training_vars, storage_vars >>
  /\ UNCHANGED callers

\* decode applied to the IDs the last encode call returned
Decode ==
  /\ op = "encode"
  /\ out' = decode(tokenizer, ids)
  /\ op' = "decode"
  /\ UNCHANGED << training_vars, storage_vars, text, passes, tokens, ids >>
  /\ UNCHANGED callers

\* decode applied to one ID chosen by the caller
DecodeId(id) ==
  /\ ids' = << id >>
  /\ out' = decode(tokenizer, << id >>)
  /\ text' = << >>
  /\ passes' = << >>
  /\ tokens' = decode_ids(tokenizer, << id >>)
  /\ op' = "decode_id"
  /\ UNCHANGED << training_vars, storage_vars >>
  /\ UNCHANGED callers

Save ==
  /\ file' = << save(tokenizer) >>
  /\ saved' = << tokenizer >>
  /\ op' = "save"
  /\ UNCHANGED << training_vars, inference_vars >>
  /\ UNCHANGED callers

Load ==
  /\ file # << >>
  /\ IF load_raises(file[1])
     THEN /\ op' = "load_error"
          /\ UNCHANGED tokenizer
     ELSE /\ op' = "load"
          /\ tokenizer' = load_tokenizer(file[1])
  /\ UNCHANGED << trains, corpus, log, inference_vars, storage_vars >>
  /\ UNCHANGED callers

\* the instance is trained once, then used
Next ==
  \/ \E c \in Corpora : op = "new" /\ Train(c)
  \/ \E t \in Texts : Tokenize(t)
  \/ Detokenize
  \/ \E t \in Texts : Encode(t)
  \/ Decode
  \/ \E id \in (-1)..(tokenizer.next_id) : DecodeId(id)

Spec == Init /\ [][Next]_vars

\* the file is changed outside the program: a field is lost, two tokens are
\* given one ID, or two merges one rank
Tamper(damage) ==
  /\ file # << >>
  /\ file = << save(saved[1]) >>
  /\ LET state == file[1]
         t0    == state.id_to_token[str(0)]
         t1    == state.id_to_token[str(1)]
         ranks == state.merge_rank_map
     IN  CASE damage = "duplicate_id" ->
                file' = << [ state EXCEPT !.token_to_id = Put(state.token_to_id, t1, state.token_to_id[t0]) ] >>
           [] damage = "rank_collision" ->
                /\ Cardinality(DOMAIN ranks) > 1
                /\ LET a == CHOOSE x \in DOMAIN ranks : TRUE
                       b == CHOOSE x \in (DOMAIN ranks) \ { a } : TRUE
                   IN  file' = << [ state EXCEPT !.merge_rank_map = Put(ranks, b, ranks[a]) ] >>
           [] OTHER ->
                file' = << [ f \in (DOMAIN state) \ { damage } |-> state[f] ] >>
  /\ op' = "tamper"
  /\ UNCHANGED << training_vars, inference_vars, saved >>
  /\ UNCHANGED callers

Damages ==
  { "duplicate_id", "rank_collision", "num_merges", "vocabulary", "merge_rank_map",
    "token_to_id", "id_to_token", "next_id" }

NextLifecycle ==
  \/ \E c \in Corpora : Train(c)
  \/ Save
  \/ Load

SpecLifecycle == Init /\ [][NextLifecycle]_vars

\* the instance is trained once and saved; the file may be damaged before it is loaded
NextStorage ==
  \/ \E c \in Corpora : op = "new" /\ Train(c)
  \/ Save
  \/ \E d \in Damages : Tamper(d)
  \/ Load

SpecStorage == Init /\ [][NextStorage]_vars

(***************************************************************************)
(* Several threads call tokenize, encode, decode and detokenize on one     *)
(* trained instance.  A call is a sequence of steps (a pass of the merge   *)
(* loop, the ID lookup, the reconstruction), each reading the attributes   *)
(* of the shared instance; the steps of different threads interleave.      *)
(***************************************************************************)
\* an instance whose merge ranks are dropped by an inference step
after_inference_step_forgets_ranks(T) == [ T EXCEPT !.merge_rank_map = EmptyDict ]

\* the instance after a step of tokenize, encode, decode or detokenize: the
\* methods assign no attribute of self
after_inference_step(T) == T

ConcurrentCorpora ==
  { << "LE", "LE" >>, << "LE", "LE", "LE" >>, << "LE", "LE", " ", "LE", "LE" >> }

ConcurrentTexts ==
  { << "LE", "LE" >>, << "LE", "LE", "LE" >>, << "LE", "2", " ", "LE", "LE" >> }

CallerStep(c, r) ==
  /\ trains > 0
  /\ callers' = [ callers EXCEPT ![c] = r ]
  /\ tokenizer' = after_inference_step(tokenizer)
  /\ op' = "call"
  /\ UNCHANGED << trains, corpus, log, inference_vars, storage_vars >>

\* tokenize(text) up to the merge loop, as called directly or by encode
BeginTokenize(c, call, t) ==
  /\ callers[c].pc \in { "idle", "done" }
  /\ CallerStep(c, [ call |-> call, pc |-> "merging", arg |-> t,
                     work |-> preprocess(t), result |-> << >> ])

\* one pass of the while True loop of tokenize; without a best pair the
\* loop ends and tokenize returns the flattened corpus
MergePass(c) ==
  /\ callers[c].pc = "merging"
  /\ LET me        == callers[c]
         best_pair == get_best_merge(tokenizer, me.work)
     IN  IF best_pair # None
         THEN CallerStep(c, [ me EXCEPT !.work = tokenize_pass(me.work, best_pair) ])
         ELSE IF me.call = "tokenize"
              THEN CallerStep(c, [ me EXCEPT !.pc = "done", !.result = flatten(me.work) ])
              ELSE CallerStep(c, [ me EXCEPT !.pc = "lookup", !.work = flatten(me.work) ])

\* decode(ids) on the IDs an encode call of some thread returned
BeginDecode(c, d) ==
  /\ callers[c].pc \in { "idle", "done" }
  /\ callers[d].pc = "done" /\ callers[d].call = "encode"
  /\ CallerStep(c, [ call |-> "decode", pc |-> "lookup", arg |-> callers[d].result,
                     work |-> callers[d].result, result |-> << >> ])

\* the lookups in token_to_id (encode) and id_to_token (decode)
Lookup(c) ==
  /\ callers[c].pc = "lookup"
  /\ LET me == callers[c]
     IN  IF me.call = "encode"
         THEN CallerStep(c, [ me EXCEPT !.pc = "done",
                                        !.result = encode_tokens(tokenizer, me.work) ])
         ELSE CallerStep(c, [ me EXCEPT !.pc = "reconstruct",
                                        !.work = decode_ids(tokenizer, me.work) ])

\* detokenize(tokens) on the tokens a tokenize call of some thread returned
BeginDetokenize(c, d) ==
  /\ callers[c].pc \in { "idle", "done" }
  /\ callers[d].pc = "done" /\ callers[d].call = "tokenize"
  /\ CallerStep(c, [ call |-> "detokenize", pc |-> "reconstruct", arg |-> callers[d].result,
                     work |-> callers[d].result, result |-> << >> ])

\* detokenize, as called directly or by decode
Reconstruct(c) ==
  /\ callers[c].pc = "reconstruct"
  /\ CallerStep(c, [ callers[c] EXCEPT !.pc = "done", !.result = detokenize(callers[c].work) ])

\* the instance is trained once, then shared
NextConcurrent ==
  \/ \E c \in ConcurrentCorpora : op = "new" /\ Train(c)
  \/ \E c \in Callers, t \in ConcurrentTexts : BeginTokenize(c, "tokenize", t)
  \/ \E c \in Callers, t \in ConcurrentTexts : BeginTokenize(c, "encode", t)
  \/ \E c \in Callers : MergePass(c)
  \/ \E c, d \in Callers : BeginDecode(c, d)
  \/ \E c \in Callers : Lookup(c)
  \/ \E c, d \in Callers : BeginDetokenize(c, d)
  \/ \E c \in Callers : Reconstruct(c)

SpecConcurrent == Init /\ [][NextConcurrent]_vars

(***************************************************************************)
(* A fresh instance is trained once and then tokenizes its training        *)
(* corpus.                                                                 *)
(***************************************************************************)
\* corpora that hold the characters of the end-of-word marker as text
MarkerCorpora ==
  { << "2", "<", "e", "o", "w", ">", "2", "<", "e", "o", "w", ">", "2" >>,
    << "2", " ", "2", "<", "e", "o", "w", ">", "<", "e", "o", "w", ">", "2" >> }

NextRetokenize ==
  \/ \E c \in Corpora \cup MarkerCorpora : op = "new" /\ Train(c)
  \/ op = "train" /\ Tokenize(corpus)

SpecRetokenize == Init /\ [][NextRetokenize]_vars

(***************************************************************************)
(* Properties.                                                             *)
(***************************************************************************)
\* every character is a glyph of the decomposition table or a space
DomainText(t) == \A i \in 1..Len(t) : t[i] \in DOMAIN AMHARIC_FIDEL_MAP \cup { " " }

\* words separated by exactly one space, no space at either end
SingleSpaced(t) ==
  /\ t # << >> => (t[1] # " " /\ t[Len(t)] # " ")
  /\ \A i \in 1..(Len(t) - 1) : ~(t[i] = " " /\ t[i + 1] = " ")

\* no merge has been learned: never trained, or trained with num_merges = 0
NoMergeLearned == trains = 0 \/ tokenizer.num_merges = 0

\* t is drawn from the corpus c: a contiguous part of it
DrawnFrom(t, c) == Contains(c, t)

\* C1 as stated: with no merge learned, detokenize(tokenize(text)) = text for
\* every text of table glyphs and spaces.
C1_RoundTripAnyDomainText ==
  (op = "detokenize" /\ NoMergeLearned /\ DomainText(text)) => out = text

\* C1 amended: with no merge learned, detokenize(tokenize(text)) = text for every
\* text of table glyphs whose words are separated by single spaces, with no space
\* at either end.
C1_RoundTripSingleSpaced ==
  (op = "detokenize" /\ NoMergeLearned /\ DomainText(text) /\ SingleSpaced(text))
    => out = text

C1_Witness ==
  /\ op = "detokenize"
  /\ trains = 1
  /\ tokenizer.num_merges = 0
  /\ text = << "LU", "LE", " ", "L", "LWA" >>
  /\ out = text

IsMergeRule(pair) == (pair[1] \o pair[2]) \in DOMAIN tokenizer.merge_rank_map

RankOf(pair) == tokenizer.merge_rank_map[pair[1] \o pair[2]]

\* the in-word adjacent pairs of a segmented text
PairsOf(words) ==
  UNION { { << words[w][j], words[w][j + 1] >> : j \in 1..(Len(words[w]) - 1) } :
            w \in DOMAIN words }

\* the positions of word at which pair occurs
Occurrences(word, pair) ==
  { j \in 1..(Len(word) - 1) : << word[j], word[j + 1] >> = pair }

\* word with the pair at every position of P replaced by merged
Rewritten(word, P, merged) ==
  LET kept == { j \in 1..Len(word) : (j - 1) \notin P }
      nth(k) == CHOOSE j \in kept : Cardinality({ x \in kept : x < j }) = k - 1
  IN  [ k \in 1..Cardinality(kept) |-> IF nth(k) \in P THEN merged ELSE word[nth(k)] ]

\* after is before with pair merged at every non-overlapping occurrence, left to right
MergedLeftToRight(before, after, pair) ==
  \E P \in SUBSET Occurrences(before, pair) :
    /\ \A j \in P : (j - 1) \notin P
    /\ \A j \in Occurrences(before, pair) \ P : (j - 1) \in P
    /\ after = Rewritten(before, P, pair[1] \o pair[2])

\* the segmentation tokenize stopped at
FinalSegmentation == IF passes = << >> THEN preprocess(text) ELSE passes[Len(passes)].after

\* C3: every pass of tokenize merges one pair, of the lowest rank among the
\* adjacent in-word pairs that are merge rules, at every non-overlapping
\* left-to-right occurrence in every word; the loop stops only when no adjacent
\* in-word pair is a merge rule, and returns that segmentation flattened.
C3_LowestRankMergePerPass ==
  op = "tokenize" =>
    /\ \A k \in 1..Len(passes) :
         LET p == passes[k]
         IN  /\ p.before = (IF k = 1 THEN preprocess(text) ELSE passes[k - 1].after)
             /\ p.best_pair \in PairsOf(p.before)
             /\ IsMergeRule(p.best_pair)
             /\ \A q \in PairsOf(p.before) :
                  IsMergeRule(q) => RankOf(p.best_pair) <= RankOf(q)
             /\ Len(p.after) = Len(p.before)
             /\ \A w \in 1..Len(p.before) :
                  MergedLeftToRight(p.before[w], p.after[w], p.best_pair)
    /\ \A q \in PairsOf(FinalSegmentation) : ~IsMergeRule(q)
    /\ tokens = flatten(FinalSegmentation)

C3_Witness ==
  /\ op = "tokenize"
  /\ Len(passes) > 2
  /\ \E k \in 1..Len(passes) :
       \E q \in PairsOf(passes[k].before) :
         IsMergeRule(q) /\ RankOf(passes[k].best_pair) < RankOf(q)

\* every token of the last tokenization has an ID in the registry
AllTokensKnown == \A i \in 1..Len(tokens) : tokens[i] \in DOMAIN tokenizer.token_to_id

\* C4: when every token of tokenize(text) is in the registry,
\* decode(encode(text)) = detokenize(tokenize(text)); a token absent from the
\* registry encodes to the sentinel -1, which is no ID of the registry, and an ID
\* absent from the registry decodes to the unknown marker.
C4_DecodeEncode ==
  /\ (op = "decode" /\ AllTokensKnown)
       => out = detokenize(tokenize(tokenizer, text))
  /\ op \in { "encode", "decode" } =>
       /\ Len(ids) = Len(tokens)
       /\ \A i \in 1..Len(tokens) :
            IF tokens[i] \in DOMAIN tokenizer.token_to_id
            THEN ids[i] = tokenizer.token_to_id[tokens[i]]
            ELSE ids[i] = -1 /\ ids[i] \notin DOMAIN tokenizer.id_to_token
  /\ op = "decode_id" =>
       /\ ids[1] \notin DOMAIN tokenizer.id_to_token => (tokens = << UNK >> /\ out = UNK)
       /\ ids[1] \in DOMAIN tokenizer.id_to_token => tokenizer.token_to_id[tokens[1]] = ids[1]

C4_Witness ==
  /\ op = "decode"
  /\ AllTokensKnown
  /\ Len(passes) > 1
  /\ \E i \in 1..Len(ids) : ids[i] >= Cardinality(initial_tokens)
  /\ out = << "LE", " ", "LE" >>

\* the fields of a tokenizer that save and load are to preserve
SameState(A, B) ==
  /\ A.vocabulary = B.vocabulary
  /\ A.merge_rank_map = B.merge_rank_map
  /\ A.token_to_id = B.token_to_id
  /\ A.id_to_token = B.id_to_token
  /\ A.next_id = B.next_id

\* C5: the instance load returns has the vocabulary, merge ranks, token-to-ID map,
\* ID-to-token map and next-ID counter of the instance save was called on, and
\* tokenize, encode, decode and detokenize give the same outputs on both.
C5_SaveLoadIdentity ==
  op = "load" =>
    /\ SameState(tokenizer, saved[1])
    /\ \A t \in ExtraTexts :
         /\ tokenize(tokenizer, t) = tokenize(saved[1], t)
         /\ encode(tokenizer, t) = encode(saved[1], t)
         /\ decode(tokenizer, encode(saved[1], t)) = decode(saved[1], encode(saved[1], t))

C5_Witness ==
  /\ op = "load"
  /\ trains = MaxTrains
  /\ tokenizer.next_id > 10
  /\ SameState(tokenizer, saved[1])

\* C6: merge ranks are unique, strictly increasing in learning order, and a rank
\* is assigned only by a merge that creates a token that did not exist before.
C6_RanksUniqueIncreasing ==
  /\ \A a, b \in DOMAIN tokenizer.merge_rank_map :
       a # b => tokenizer.merge_rank_map[a] # tokenizer.merge_rank_map[b]
  /\ \A i, j \in 1..Len(log) : i < j => log[i].rank < log[j].rank
  /\ \A i \in 1..Len(log) : ~log[i].existed

BootstrapVocabSize == Cardinality(initial_tokens)

\* the registry is a pair of mutually inverse maps on the IDs 0..next_id-1, the
\* base tokens holding the lowest IDs in sorted order
RegistryConsistent ==
  LET t2i == tokenizer.token_to_id
      i2t == tokenizer.id_to_token
  IN  /\ DOMAIN i2t = 0..(tokenizer.next_id - 1)
      /\ \A t \in DOMAIN t2i : t2i[t] \in DOMAIN i2t /\ i2t[t2i[t]] = t
      /\ \A i \in DOMAIN i2t : i2t[i] \in DOMAIN t2i /\ t2i[i2t[i]] = i
      /\ \A b \in initial_tokens : b \in DOMAIN t2i /\ t2i[b] < BootstrapVocabSize
      /\ \A a, b \in initial_tokens : StrLess(a, b) => t2i[a] < t2i[b]

\* the tokens a train call introduced, in learning order
Introduced(entries) == SelectSeq(entries, LAMBDA e : ~e.existed)

\* a step keeps every assigned ID, a train call numbers the tokens it introduces
\* from the old next_id on in learning order, and load reproduces the saved IDs
RegistryStep ==
  /\ op' # "load" =>
       \A t \in DOMAIN tokenizer.token_to_id :
         /\ t \in DOMAIN tokenizer'.token_to_id
         /\ tokenizer'.token_to_id[t] = tokenizer.token_to_id[t]
  /\ (op' = "train" /\ trains' = trains + 1) =>
       LET new == Introduced(log')
       IN  /\ tokenizer'.next_id = tokenizer.next_id + Len(new)
           /\ \A k \in 1..Len(new) :
                tokenizer'.token_to_id[new[k].new_token] = tokenizer.next_id + k - 1
  /\ op' = "load" => tokenizer'.token_to_id = saved[1].token_to_id

\* C7: token-to-ID and ID-to-token are mutually inverse, the IDs are exactly
\* 0..next_id-1, base tokens hold the lowest IDs in sorted order followed by merged
\* tokens in learning order, and an assigned ID never changes (train keeps it, load
\* reproduces the saved one).
C7_RegistryDenseStable == [](RegistryConsistent) /\ [][RegistryStep]_vars

C7_Witness ==
  /\ op = "load"
  /\ trains = MaxTrains
  /\ \E i \in 1..Len(log) : log[i].existed
  /\ \E i \in 1..Len(log) : ~log[i].existed
  /\ tokenizer.next_id > BootstrapVocabSize + 2
  /\ RegistryConsistent

\* C8: after one train call on a fresh tokenizer that learned k merges, none of
\* whose targets existed as a token when it was formed, next_id is the bootstrap
\* vocabulary size plus k.
C8_NextIdCountsMerges ==
  (op = "train" /\ trains = 1 /\ \A i \in 1..Len(log) : ~log[i].existed)
    => tokenizer.next_id = BootstrapVocabSize + Len(log)

C8_Witness ==
  /\ op = "train"
  /\ trains = 1
  /\ Len(log) = 3
  /\ \A i \in 1..Len(log) : ~log[i].existed
  /\ tokenizer.next_id = BootstrapVocabSize + 3

\* the number of in-word adjacent occurrences of pair in a segmented corpus
Occurs(words, pair) ==
  LET at == { << w, j >> \in (DOMAIN words) \X (1..Len(join(words))) :
                j < Len(words[w]) /\ << words[w][j], words[w][j + 1] >> = pair }
  IN  Cardinality(at)

\* the pair counts train held when its loop ended
FinalPairCounts ==
  IF log = << >> THEN initial_pair_counts(preprocess(corpus), << >>)
  ELSE log[Len(log)].pair_counts

\* C9: train performs at most num_merges merge iterations; it merges only a pair
\* of frequency at least 2 and, when it stops short of the budget, no pair has
\* frequency 2 or more (so a corpus without a repeated adjacent pair teaches no
\* merge); on the corpus of one word of three equal glyphs with a budget of
\* MaxMerges it learns at least one merge and stops short of the budget.
C9_TrainStops ==
  op = "train" =>
    /\ Len(log) <= tokenizer.num_merges
    /\ \A i \in 1..Len(log) : log[i].freq >= 2
    /\ Len(log) < tokenizer.num_merges =>
         \A k \in 1..Len(FinalPairCounts) : FinalPairCounts[k].n < 2
    /\ (trains = 1 /\ \A q \in PairsOf(preprocess(corpus)) : Occurs(preprocess(corpus), q) < 2)
         => (log = << >> /\ tokenizer.merge_rank_map = << >>)
    /\ (trains = 1 /\ corpus = << "LE", "LE", "LE" >> /\ tokenizer.num_merges = MaxMerges)
         => (Len(log) >= 1 /\ Len(log) < MaxMerges)

C9_Witness ==
  /\ op = "train"
  /\ trains = 1
  /\ corpus = << "LE", "LE", "LE" >>
  /\ tokenizer.num_merges = MaxMerges
  /\ Len(log) = 2

\* a persisted state with every required field, no two tokens of one ID and no two
\* merges of one rank
FileWellFormed(state) ==
  /\ { "num_merges", "vocabulary", "merge_rank_map", "token_to_id", "id_to_token",
       "next_id" } \subseteq DOMAIN state
  /\ \A a, b \in DOMAIN state.token_to_id :
       a # b => state.token_to_id[a] # state.token_to_id[b]
  /\ \A a, b \in DOMAIN state.merge_rank_map :
       a # b => state.merge_rank_map[a] # state.merge_rank_map[b]

\* C10: load returns a tokenizer only from a persisted state that has every
\* required field and is consistent; otherwise it fails.
C10_LoadRejectsMalformed == op = "load" => FileWellFormed(file[1])

\* what the call of a thread returns when nothing else runs
SequentialResult(T, me) ==
  CASE me.call = "tokenize"   -> tokenize(T, me.arg)
    [] me.call = "encode"     -> encode(T, me.arg)
    [] me.call = "decode"     -> decode(T, me.arg)
    [] me.call = "detokenize" -> detokenize(me.arg)

\* no step of an inference call changes an attribute of the instance
InferenceFrame ==
  callers' # callers =>
    /\ tokenizer'.vocabulary = tokenizer.vocabulary
    /\ tokenizer'.merge_rank_map = tokenizer.merge_rank_map
    /\ tokenizer'.token_to_id = tokenizer.token_to_id
    /\ tokenizer'.id_to_token = tokenizer.id_to_token
    /\ tokenizer'.next_id = tokenizer.next_id

\* C11: tokenize, encode, decode and detokenize leave vocabulary,
\* merge_rank_map, token_to_id, id_to_token and next_id unchanged, and every
\* call that finishes while calls of other threads are interleaved with it
\* returns what the same call returns when run alone.
C11_InferenceReadOnly ==
  /\ [](\A c \in Callers :
          callers[c].pc = "done" => callers[c].result = SequentialResult(tokenizer, callers[c]))
  /\ [][InferenceFrame]_vars

\* an encode call has finished on a tokenizer with merges while the other
\* thread is inside the merge loop of a tokenize call, one pass done
C11_Witness ==
  /\ DOMAIN tokenizer.merge_rank_map # { }
  /\ callers[1].pc = "done" /\ callers[1].call = "encode" /\ callers[1].result # << >>
  /\ callers[2].pc = "merging" /\ callers[2].call = "tokenize"
  /\ callers[2].work # preprocess(callers[2].arg)

\* a word the merge of entry k rescanned because its joined string holds the new
\* token, although the selected pair is nowhere adjacent in it
RescannedWithoutPair(k) ==
  LET before == IF k = 1 THEN preprocess(corpus) ELSE log[k - 1].words
  IN  \E w \in DOMAIN before :
        /\ rescans(before[w], log[k].new_token)
        /\ Occurrences(before[w], log[k].best_pair) = { }

\* C12: after every merge iteration of train the pair counts kept by subtract
\* and update equal a recount of the segmented corpus: the count of every pair
\* is the number of its adjacent in-word occurrences (zero for a pair that no
\* longer occurs), also when a word was rescanned only because of the
\* substring test.
C12_PairCountsAgreeWithRecount ==
  \A k \in 1..Len(log) :
    \A pair \in PairsOf(log[k].words) \cup CounterKeys(log[k].pair_counts) :
      CounterGet(log[k].pair_counts, pair) = Occurs(log[k].words, pair)

\* a training run with three merges, the second of which rescans a word that has
\* the new token only as a substring, and a pair left with count zero
C12_Witness ==
  /\ op = "train"
  /\ Len(log) = 3
  /\ RescannedWithoutPair(2)
  /\ \E pair \in CounterKeys(log[2].pair_counts) : CounterGet(log[2].pair_counts, pair) = 0

\* the segmented corpus merge iteration k of the last train call selected from
CorpusBefore(k) == IF k = 1 THEN preprocess(corpus) ELSE log[k - 1].words

\* C13: every merge a train call learns is, when selected, an adjacent in-word
\* pair of the current segmented corpus whose number of occurrences is at least
\* that of every other adjacent pair and at least 2; the merged token is the
\* concatenation of the pair, and when the call returns the vocabulary holds
\* for it the number of occurrences the pair had when selected.
C13_MergeIsMostFrequentPair ==
  op = "train" =>
    \A k \in 1..Len(log) :
      LET e      == log[k]
          before == CorpusBefore(k)
      IN  /\ e.best_pair \in PairsOf(before)
          /\ e.freq = Occurs(before, e.best_pair)
          /\ \A q \in PairsOf(before) : Occurs(before, q) <= e.freq
          /\ e.freq >= 2
          /\ e.new_token = e.best_pair[1] \o e.best_pair[2]
          /\ e.new_token \in DOMAIN tokenizer.vocabulary
          /\ tokenizer.vocabulary[e.new_token] = e.freq

\* a second train call on the instance whose first merge was selected among
\* pairs of smaller and of equal frequency and stored a weight of 4, and whose
\* later merge stored a smaller weight
C13_Witness ==
  /\ op = "train"
  /\ trains = 2
  /\ Len(log) >= 2
  /\ tokenizer.vocabulary[log[1].new_token] = 4
  /\ \E q \in PairsOf(CorpusBefore(1)) : Occurs(CorpusBefore(1), q) < 4
  /\ \E k \in 2..Len(log) :
       /\ tokenizer.vocabulary[log[k].new_token] < 4
       /\ \E q \in PairsOf(CorpusBefore(k)) \ { log[k].best_pair } :
            Occurs(CorpusBefore(k), q) = log[k].freq

\* the segmentation the loop of the last train call ended with
TrainedSegmentation == IF log = << >> THEN preprocess(corpus) ELSE log[Len(log)].words

\* C14: after one train call on a fresh instance, tokenize applied to the
\* training corpus returns the flattened segmentation the training loop
\* ended with.
C14_TokenizeReproducesTraining ==
  (op = "tokenize" /\ trains = 1 /\ text = corpus) => tokens = flatten(TrainedSegmentation)

====
